---- MODULE Spec2Model ----
(***************************************************************************)
(* Model of netavark's `setup` command, src/commands/setup.rs: Setup::exec *)
(* as a state machine.  One step of the machine is one statement group of  *)
(* exec (one collaborator call or one check); the outcome of a call into   *)
(* a collaborator (ns_checks, NetworkOptions::load, firewall detection,    *)
(* sysctl, bridge provisioning, firewall rule installation, serde) is a    *)
(* nondeterministic choice between Ok and Err.                             *)
(***************************************************************************)
EXTENDS Integers, Sequences, FiniteSets, TLC

\* ---------------------------------------------------------------- bounds
MaxNets == 2            \* number of distinct network names in a request

AllNames == <<"podman", "net1", "net2", "net3">>
Names == {AllNames[i] : i \in 1..MaxNets}
Drivers == {"bridge", "macvlan"}

\* ------------------------------------------------------------- constants
IPV4_FORWARD == "net.ipv4.ip_forward"
MAX_HASH_SIZE == 13

\* ----------------------------------------------------------------- state
VARIABLES
    pc,               \* position inside exec, or the terminal outcome
    input_file,       \* contents of the configuration file given to exec
    network_options,  \* Option<NetworkOptions>: <<>> before load, <<opts>> after
    firewall_driver,  \* Option<driver>: <<>> before detection
    iter,             \* the rest of network_info.iter()
    network,          \* Option<entry>: the loop's current (net_name, network)
    per_network_opts, \* Option<PerNetworkOptions> of the current network
    id_network_hash,  \* Option<token> of the current network
    response,         \* HashMap<String, StatusBlock>
    calls,            \* every step taken so far: [op, net, ok]
    devices,          \* host/namespace devices that exist
    rules,            \* firewall rules that exist
    stdout,           \* lines written to standard output
    error,            \* the error returned by exec ("" while none)
    lock,             \* holder of the host-wide firewall lock, 0 when free
    fw                \* per invocation: its position inside the firewall
                      \* engine, the firewall calls it still makes, the rule
                      \* table it has read

vars == <<pc, input_file, network_options, firewall_driver, iter, network,
          per_network_opts, id_network_hash, response, calls, devices,
          rules, stdout, error, lock, fw>>

\* ------------------------------------------------------------ data model
None == <<>>
Some(x) == <<x>>
IsSome(o) == Len(o) = 1
Unwrap(o) == o[1]

NoRepeat(s) == \A i, j \in 1..Len(s) : i # j => s[i] # s[j]

\* sequences over S without repetition, of length at most n
DistinctSeqs(S, n) ==
    UNION {{s \in [1..k -> S] : NoRepeat(s)} : k \in 0..n}

NameOrders == DistinctSeqs(Names, MaxNets)

\* network_info: the definitions, as the entries appear in the input
NetworkInfos ==
    UNION {{[i \in 1..Len(o) |-> [name |-> o[i], driver |-> d[i]]] :
              d \in [1..Len(o) -> Drivers]} : o \in NameOrders}

PerNetworkOptions == [interface_name |-> "eth0"]

\* networks: name -> PerNetworkOptions, for any subset of the names
NetworksMaps == {[n \in S |-> PerNetworkOptions] : S \in SUBSET Names}

PortMapping == [host_port |-> 8080, container_port |-> 80, protocol |-> "tcp"]
PortMappingsOpts == {None, Some(<<>>), Some(<<PortMapping>>)}

NetworkOptionsValues ==
    [container_id : {"ctr"}, networks : NetworksMaps,
     network_info : NetworkInfos, port_mappings : PortMappingsOpts]

InfoNames(opts) == {opts.network_info[i].name : i \in 1..Len(opts.network_info)}


\* the invocations that run at the same time on one host
Procs == {1, 2}

\* HashMap::insert
MapInsert(m, k, v) == [x \in (DOMAIN m) \cup {k} |-> IF x = k THEN v ELSE m[x]]

\* ---------------------------------------------------------- collaborators
NameCode(n) == CHOOSE i \in 1..Len(AllNames) : AllNames[i] = n

\* a fixed-width digest of the name (stands for the hex digest of the name)
Digest(n) == [i \in 1..16 |-> (NameCode(n) * (i + 6) + i * i) % 16]

\* CoreUtils::create_network_hash: the digest truncated to `size`
create_network_hash(net_name, size) ==
    LET d == Digest(net_name)
    IN SubSeq(d, 1, IF size < Len(d) THEN size ELSE Len(d))

\* the StatusBlock bridge_per_podman_network returns on success
StatusBlockOf(net_name, opts) ==
    [interfaces |-> <<opts.interface_name>>, network |-> net_name]

\* host state after bridge_per_podman_network: the network's devices on
\* success; on an error possibly a partially created veth
ProvisionEffect(devs, net_name, ok, partial) ==
    IF ok THEN devs \cup {[net |-> net_name, complete |-> TRUE]}
    ELSE IF partial THEN devs \cup {[net |-> net_name, complete |-> FALSE]}
    ELSE devs

\* rule table after setup_network / setup_port_forward: the rules tagged
\* with the token on success; on an error possibly part of them
RuleEffect(rs, kind, net_name, token, ok, partial) ==
    IF ok THEN rs \cup {[kind |-> kind, net |-> net_name, token |-> token,
                         complete |-> TRUE]}
    ELSE IF partial THEN rs \cup {[kind |-> kind, net |-> net_name,
                                   token |-> token, complete |-> FALSE]}
    ELSE rs

\* network_info.iter(): the entries in the order of the input
IterOf(network_info) == network_info

\* serde_json::to_string of the response map: a JSON object, one member
\* per key
ToJson(m) == [json |-> "object",
              members |-> {[key |-> k, value |-> m[k]] : k \in DOMAIN m}]

\* one entry of the step log
Call(op, net_name, ok, token, ports) ==
    [op |-> op, net |-> net_name, ok |-> ok, token |-> token, ports |-> ports]

\* ------------------------------------------------------------------ Init
Init ==
    /\ pc = "ns_checks"
    /\ input_file \in NetworkOptionsValues
    /\ network_options = None
    /\ firewall_driver = None
    /\ iter = <<>>
    /\ network = None
    /\ per_network_opts = None
    /\ id_network_hash = None
    /\ response = <<>>
    /\ calls = <<>>
    /\ devices = {}
    /\ rules = {}
    /\ stdout = <<>>
    /\ error = ""
    /\ lock = 0
    /\ fw = [p \in Procs |-> [pc |-> "idle", queue |-> <<>>, snapshot |-> {}]]

\* variant of ExecNsChecks: the result of ns_checks is dropped
ExecNsChecks_IgnoreError ==
    /\ pc = "ns_checks"
    /\ \E ok \in BOOLEAN :
         /\ calls' = Append(calls, Call("ns_checks", "", ok, None, None))
         /\ IF ok THEN pc' = "load" /\ error' = error
                  ELSE pc' = "load" /\ error' = error
    /\ UNCHANGED <<lock, fw, input_file, network_options, firewall_driver, iter,
                   network, per_network_opts, id_network_hash, response,
                   devices, rules, stdout>>

\* --------------------------------------------------------------- actions
\* lines 31-37: validate the namespace path
ExecNsChecks ==
    /\ pc = "ns_checks"
    /\ \E ok \in BOOLEAN :
         /\ calls' = Append(calls, Call("ns_checks", "", ok, None, None))
         /\ IF ok THEN pc' = "load" /\ error' = error
                  ELSE pc' = "Failed" /\ error' = "invalid namespace path"
    /\ UNCHANGED <<lock, fw, input_file, network_options, firewall_driver, iter,
                   network, per_network_opts, id_network_hash, response,
                   devices, rules, stdout>>

\* lines 39-47: load the configuration
ExecLoad ==
    /\ pc = "load"
    /\ \E ok \in BOOLEAN :
         /\ calls' = Append(calls, Call("load", "", ok, None, None))
         /\ IF ok THEN /\ pc' = "get_firewall_driver"
                       /\ network_options' = Some(input_file)
                       /\ error' = error
                  ELSE /\ pc' = "Failed"
                       /\ network_options' = network_options
                       /\ error' = "NetavarkError"
    /\ UNCHANGED <<lock, fw, input_file, firewall_driver, iter, network,
                   per_network_opts, id_network_hash, response, devices,
                   rules, stdout>>

\* variant of ExecGetFirewallDriver: a failed detection falls back to a default driver
ExecGetFirewallDriver_Fallback ==
    /\ pc = "get_firewall_driver"
    /\ \E ok \in BOOLEAN :
         /\ calls' = Append(calls,
                Call("get_supported_firewall_driver", "", ok, None, None))
         /\ IF ok THEN /\ pc' = "apply_sysctl"
                       /\ firewall_driver' = Some("iptables")
                       /\ error' = error
                  ELSE /\ pc' = "apply_sysctl"
                       /\ firewall_driver' = Some("iptables")
                       /\ error' = error
    /\ UNCHANGED <<lock, fw, input_file, network_options, iter, network,
                   per_network_opts, id_network_hash, response, devices,
                   rules, stdout>>

\* lines 49-52: detect the firewall backend; an error panics
ExecGetFirewallDriver ==
    /\ pc = "get_firewall_driver"
    /\ \E ok \in BOOLEAN :
         /\ calls' = Append(calls,
                Call("get_supported_firewall_driver", "", ok, None, None))
         /\ IF ok THEN /\ pc' = "apply_sysctl"
                       /\ firewall_driver' = Some("iptables")
                       /\ error' = error
                  ELSE /\ pc' = "Failed"
                       /\ firewall_driver' = firewall_driver
                       /\ error' = "panic"
    /\ UNCHANGED <<lock, fw, input_file, network_options, iter, network,
                   per_network_opts, id_network_hash, response, devices,
                   rules, stdout>>

\* variant of ExecApplySysctl: the error of the sysctl write is dropped
ExecApplySysctl_IgnoreError ==
    /\ pc = "apply_sysctl"
    /\ \E ok \in BOOLEAN :
         /\ calls' = Append(calls,
                Call("apply_sysctl_value", IPV4_FORWARD, ok, None, None))
         /\ IF ok THEN /\ pc' = "for_next"
                       /\ iter' = IterOf(Unwrap(network_options).network_info)
                       /\ error' = error
                  ELSE /\ pc' = "for_next"
                       /\ iter' = IterOf(Unwrap(network_options).network_info)
                       /\ error' = error
    /\ response' = <<>>
    /\ UNCHANGED <<lock, fw, input_file, network_options, firewall_driver, network,
                   per_network_opts, id_network_hash, devices, rules, stdout>>

\* lines 54-61: enable IPv4 forwarding, create the response map and the
\* iterator of the loop
ExecApplySysctl ==
    /\ pc = "apply_sysctl"
    /\ \E ok \in BOOLEAN :
         /\ calls' = Append(calls,
                Call("apply_sysctl_value", IPV4_FORWARD, ok, None, None))
         /\ IF ok THEN /\ pc' = "for_next"
                       /\ iter' = IterOf(Unwrap(network_options).network_info)
                       /\ error' = error
                  ELSE /\ pc' = "Failed"
                       /\ iter' = iter
                       /\ error' = "sysctl"
    /\ response' = <<>>
    /\ UNCHANGED <<lock, fw, input_file, network_options, firewall_driver, network,
                   per_network_opts, id_network_hash, devices, rules, stdout>>

\* variant of ExecForNext: the loop takes the entries from the back
ExecForNext_Reverse ==
    /\ pc = "for_next"
    /\ IF iter = <<>>
       THEN /\ pc' = "to_string"
            /\ UNCHANGED <<iter, network>>
       ELSE /\ pc' = "match_driver"
            /\ network' = Some(iter[Len(iter)])
            /\ iter' = SubSeq(iter, 1, Len(iter) - 1)
    /\ per_network_opts' = None
    /\ id_network_hash' = None
    /\ UNCHANGED <<lock, fw, input_file, network_options, firewall_driver, response,
                   calls, devices, rules, stdout, error>>

\* line 61: the next (net_name, network) of the loop, or the end of it
ExecForNext ==
    /\ pc = "for_next"
    /\ IF iter = <<>>
       THEN /\ pc' = "to_string"
            /\ UNCHANGED <<iter, network>>
       ELSE /\ pc' = "match_driver"
            /\ network' = Some(Head(iter))
            /\ iter' = Tail(iter)
    /\ per_network_opts' = None
    /\ id_network_hash' = None
    /\ UNCHANGED <<lock, fw, input_file, network_options, firewall_driver, response,
                   calls, devices, rules, stdout, error>>

\* variant of ExecMatchDriver: a network with an unknown driver is skipped
ExecMatchDriver_Skip ==
    /\ pc = "match_driver"
    /\ LET net == Unwrap(network)
           ok == net.driver = "bridge"
       IN /\ calls' = Append(calls, Call("match_driver", net.name, ok, None, None))
          /\ IF ok THEN pc' = "get_per_network_opts" /\ error' = error
                   ELSE pc' = "for_next" /\ error' = error
    /\ UNCHANGED <<lock, fw, input_file, network_options, firewall_driver, iter,
                   network, per_network_opts, id_network_hash, response,
                   devices, rules, stdout>>

\* lines 67-68, 103-110: only the bridge driver is known
ExecMatchDriver ==
    /\ pc = "match_driver"
    /\ LET net == Unwrap(network)
           ok == net.driver = "bridge"
       IN /\ calls' = Append(calls, Call("match_driver", net.name, ok, None, None))
          /\ IF ok THEN pc' = "get_per_network_opts" /\ error' = error
                   ELSE pc' = "Failed" /\ error' = "unknown network driver"
    /\ UNCHANGED <<lock, fw, input_file, network_options, firewall_driver, iter,
                   network, per_network_opts, id_network_hash, response,
                   devices, rules, stdout>>

\* variant of ExecGetPerNetworkOpts: a network without options is skipped
ExecGetPerNetworkOpts_Skip ==
    /\ pc = "get_per_network_opts"
    /\ LET net == Unwrap(network)
           networks == Unwrap(network_options).networks
           ok == net.name \in DOMAIN networks
       IN /\ calls' = Append(calls, Call("networks.get", net.name, ok, None, None))
          /\ IF ok THEN /\ pc' = "bridge_per_podman_network"
                        /\ per_network_opts' = Some(networks[net.name])
                        /\ error' = error
                   ELSE /\ pc' = "for_next"
                        /\ per_network_opts' = per_network_opts
                        /\ error' = error
    /\ UNCHANGED <<lock, fw, input_file, network_options, firewall_driver, iter,
                   network, id_network_hash, response, devices, rules, stdout>>

\* lines 69-75: the per-network options of the network must exist
ExecGetPerNetworkOpts ==
    /\ pc = "get_per_network_opts"
    /\ LET net == Unwrap(network)
           networks == Unwrap(network_options).networks
           ok == net.name \in DOMAIN networks
       IN /\ calls' = Append(calls, Call("networks.get", net.name, ok, None, None))
          /\ IF ok THEN /\ pc' = "bridge_per_podman_network"
                        /\ per_network_opts' = Some(networks[net.name])
                        /\ error' = error
                   ELSE /\ pc' = "Failed"
                        /\ per_network_opts' = per_network_opts
                        /\ error' = "network options not found"
    /\ UNCHANGED <<lock, fw, input_file, network_options, firewall_driver, iter,
                   network, id_network_hash, response, devices, rules, stdout>>

\* variant of ExecBridgePerPodmanNetwork: the error of the provisioner is dropped
ExecBridgePerPodmanNetwork_IgnoreError ==
    /\ pc = "bridge_per_podman_network"
    /\ LET net == Unwrap(network)
       IN \E ok \in BOOLEAN, partial \in BOOLEAN :
            /\ calls' = Append(calls,
                   Call("bridge_per_podman_network", net.name, ok, None, None))
            /\ devices' = ProvisionEffect(devices, net.name, ok, partial)
            /\ IF ok THEN /\ pc' = "setup_network"
                          /\ response' = MapInsert(response, net.name,
                                 StatusBlockOf(net.name, Unwrap(per_network_opts)))
                          /\ error' = error
                     ELSE /\ pc' = "setup_network"
                          /\ response' = response
                          /\ error' = error
    /\ UNCHANGED <<lock, fw, input_file, network_options, firewall_driver, iter,
                   network, per_network_opts, id_network_hash, rules, stdout>>

\* variant of ExecBridgePerPodmanNetwork: the status block is not recorded
ExecBridgePerPodmanNetwork_NoInsert ==
    /\ pc = "bridge_per_podman_network"
    /\ LET net == Unwrap(network)
       IN \E ok \in BOOLEAN, partial \in BOOLEAN :
            /\ calls' = Append(calls,
                   Call("bridge_per_podman_network", net.name, ok, None, None))
            /\ devices' = ProvisionEffect(devices, net.name, ok, partial)
            /\ IF ok THEN /\ pc' = "setup_network"
                          /\ response' = response
                          /\ error' = error
                     ELSE /\ pc' = "Failed"
                          /\ response' = response
                          /\ error' = "bridge_per_podman_network"
    /\ UNCHANGED <<lock, fw, input_file, network_options, firewall_driver, iter,
                   network, per_network_opts, id_network_hash, rules, stdout>>

\* lines 76-82: configure bridge and veth pair, record the status block
ExecBridgePerPodmanNetwork ==
    /\ pc = "bridge_per_podman_network"
    /\ LET net == Unwrap(network)
       IN \E ok \in BOOLEAN, partial \in BOOLEAN :
            /\ calls' = Append(calls,
                   Call("bridge_per_podman_network", net.name, ok, None, None))
            /\ devices' = ProvisionEffect(devices, net.name, ok, partial)
            /\ IF ok THEN /\ pc' = "setup_network"
                          /\ response' = MapInsert(response, net.name,
                                 StatusBlockOf(net.name, Unwrap(per_network_opts)))
                          /\ error' = error
                     ELSE /\ pc' = "Failed"
                          /\ response' = response
                          /\ error' = "bridge_per_podman_network"
    /\ UNCHANGED <<lock, fw, input_file, network_options, firewall_driver, iter,
                   network, per_network_opts, id_network_hash, rules, stdout>>

\* variant of ExecSetupNetwork: the error of setup_network is dropped
ExecSetupNetwork_IgnoreError ==
    /\ pc = "setup_network"
    /\ LET net == Unwrap(network)
           hash == create_network_hash(net.name, MAX_HASH_SIZE)
       IN \E ok \in BOOLEAN, partial \in BOOLEAN :
            /\ id_network_hash' = Some(hash)
            /\ calls' = Append(calls,
                   Call("setup_network", net.name, ok, Some(hash), None))
            /\ rules' = RuleEffect(rules, "network", net.name, hash, ok, partial)
            /\ IF ok THEN pc' = "port_bindings" /\ error' = error
                     ELSE pc' = "port_bindings" /\ error' = error
    /\ UNCHANGED <<lock, fw, input_file, network_options, firewall_driver, iter,
                   network, per_network_opts, response, devices, stdout>>

\* lines 84-85: derive the token, install the network's firewall rules
ExecSetupNetwork ==
    /\ pc = "setup_network"
    /\ LET net == Unwrap(network)
           hash == create_network_hash(net.name, MAX_HASH_SIZE)
       IN \E ok \in BOOLEAN, partial \in BOOLEAN :
            /\ id_network_hash' = Some(hash)
            /\ calls' = Append(calls,
                   Call("setup_network", net.name, ok, Some(hash), None))
            /\ rules' = RuleEffect(rules, "network", net.name, hash, ok, partial)
            /\ IF ok THEN pc' = "port_bindings" /\ error' = error
                     ELSE pc' = "Failed" /\ error' = "setup_network"
    /\ UNCHANGED <<lock, fw, input_file, network_options, firewall_driver, iter,
                   network, per_network_opts, response, devices, stdout>>

\* variant of ExecPortBindings: a failed port forward removes what the invocation created
ExecPortBindings_Rollback ==
    /\ pc = "port_bindings"
    /\ LET net == Unwrap(network)
           port_bindings == Unwrap(network_options).port_mappings
           hash == Unwrap(id_network_hash)
       IN IF ~IsSome(port_bindings)
          THEN /\ pc' = "for_next"
               /\ UNCHANGED <<calls, rules, devices, error>>
          ELSE \E ok \in BOOLEAN, partial \in BOOLEAN :
                 /\ calls' = Append(calls,
                        Call("setup_port_forward", net.name, ok, Some(hash),
                             Some(Unwrap(port_bindings))))
                 /\ rules' = IF ok THEN RuleEffect(rules, "port_forward", net.name,
                                                  hash, ok, partial)
                                ELSE {}
                 /\ devices' = IF ok THEN devices ELSE {}
                 /\ IF ok THEN pc' = "for_next" /\ error' = error
                          ELSE pc' = "Failed" /\ error' = "setup_port_forward"
    /\ UNCHANGED <<lock, fw, input_file, network_options, firewall_driver, iter,
                   network, per_network_opts, id_network_hash, response,
                   stdout>>

\* variant of ExecPortBindings: the token is cut again before it is passed on
ExecPortBindings_ShortToken ==
    /\ pc = "port_bindings"
    /\ LET net == Unwrap(network)
           port_bindings == Unwrap(network_options).port_mappings
           hash == SubSeq(Unwrap(id_network_hash), 1, MAX_HASH_SIZE - 1)
       IN IF ~IsSome(port_bindings)
          THEN /\ pc' = "for_next"
               /\ UNCHANGED <<calls, rules, error>>
          ELSE \E ok \in BOOLEAN, partial \in BOOLEAN :
                 /\ calls' = Append(calls,
                        Call("setup_port_forward", net.name, ok, Some(hash),
                             Some(Unwrap(port_bindings))))
                 /\ rules' = RuleEffect(rules, "port_forward", net.name, hash,
                                        ok, partial)
                 /\ IF ok THEN pc' = "for_next" /\ error' = error
                          ELSE pc' = "Failed" /\ error' = "setup_port_forward"
    /\ UNCHANGED <<lock, fw, input_file, network_options, firewall_driver, iter,
                   network, per_network_opts, id_network_hash, response,
                   devices, stdout>>

\* variant of ExecPortBindings: the port mappings are moved out of the options instead of cloned
ExecPortBindings_Take ==
    /\ pc = "port_bindings"
    /\ LET net == Unwrap(network)
           port_bindings == Unwrap(network_options).port_mappings
           hash == Unwrap(id_network_hash)
       IN IF ~IsSome(port_bindings)
          THEN /\ pc' = "for_next"
               /\ UNCHANGED <<calls, rules, error, network_options>>
          ELSE \E ok \in BOOLEAN, partial \in BOOLEAN :
                 /\ calls' = Append(calls,
                        Call("setup_port_forward", net.name, ok, Some(hash),
                             Some(Unwrap(port_bindings))))
                 /\ network_options' = Some([Unwrap(network_options) EXCEPT
                                               !.port_mappings = None])
                 /\ rules' = RuleEffect(rules, "port_forward", net.name, hash,
                                        ok, partial)
                 /\ IF ok THEN pc' = "for_next" /\ error' = error
                          ELSE pc' = "Failed" /\ error' = "setup_port_forward"
    /\ UNCHANGED <<lock, fw, input_file, firewall_driver, iter,
                   network, per_network_opts, id_network_hash, response,
                   devices, stdout>>

\* variant of ExecPortBindings: setup_port_forward is called a second time
ExecPortBindings_Twice ==
    /\ pc = "port_bindings"
    /\ LET net == Unwrap(network)
           port_bindings == Unwrap(network_options).port_mappings
           hash == Unwrap(id_network_hash)
       IN IF ~IsSome(port_bindings)
          THEN /\ pc' = "for_next"
               /\ UNCHANGED <<calls, rules, error>>
          ELSE \E ok \in BOOLEAN, partial \in BOOLEAN :
                 /\ calls' = Append(Append(calls,
                        Call("setup_port_forward", net.name, TRUE, Some(hash),
                             Some(Unwrap(port_bindings)))),
                        Call("setup_port_forward", net.name, ok, Some(hash),
                             Some(Unwrap(port_bindings))))
                 /\ rules' = RuleEffect(rules, "port_forward", net.name, hash,
                                        ok, partial)
                 /\ IF ok THEN pc' = "for_next" /\ error' = error
                          ELSE pc' = "Failed" /\ error' = "setup_port_forward"
    /\ UNCHANGED <<lock, fw, input_file, network_options, firewall_driver, iter,
                   network, per_network_opts, id_network_hash, response,
                   devices, stdout>>

\* variant of ExecPortBindings: an empty list of port mappings is treated like None
ExecPortBindings_SkipEmpty ==
    /\ pc = "port_bindings"
    /\ LET net == Unwrap(network)
           port_bindings == Unwrap(network_options).port_mappings
           hash == Unwrap(id_network_hash)
       IN IF ~IsSome(port_bindings) \/ Unwrap(port_bindings) = <<>>
          THEN /\ pc' = "for_next"
               /\ UNCHANGED <<calls, rules, error>>
          ELSE \E ok \in BOOLEAN, partial \in BOOLEAN :
                 /\ calls' = Append(calls,
                        Call("setup_port_forward", net.name, ok, Some(hash),
                             Some(Unwrap(port_bindings))))
                 /\ rules' = RuleEffect(rules, "port_forward", net.name, hash,
                                        ok, partial)
                 /\ IF ok THEN pc' = "for_next" /\ error' = error
                          ELSE pc' = "Failed" /\ error' = "setup_port_forward"
    /\ UNCHANGED <<lock, fw, input_file, network_options, firewall_driver, iter,
                   network, per_network_opts, id_network_hash, response,
                   devices, stdout>>

\* lines 87-102: install the port-forward rules when port mappings exist
ExecPortBindings ==
    /\ pc = "port_bindings"
    /\ LET net == Unwrap(network)
           port_bindings == Unwrap(network_options).port_mappings
           hash == Unwrap(id_network_hash)
       IN IF ~IsSome(port_bindings)
          THEN /\ pc' = "for_next"
               /\ UNCHANGED <<calls, rules, error>>
          ELSE \E ok \in BOOLEAN, partial \in BOOLEAN :
                 /\ calls' = Append(calls,
                        Call("setup_port_forward", net.name, ok, Some(hash),
                             Some(Unwrap(port_bindings))))
                 /\ rules' = RuleEffect(rules, "port_forward", net.name, hash,
                                        ok, partial)
                 /\ IF ok THEN pc' = "for_next" /\ error' = error
                          ELSE pc' = "Failed" /\ error' = "setup_port_forward"
    /\ UNCHANGED <<lock, fw, input_file, network_options, firewall_driver, iter,
                   network, per_network_opts, id_network_hash, response,
                   devices, stdout>>

\* variant of ExecEmit: the response is printed even when serialization failed
ExecEmit_PrintOnError ==
    /\ pc = "to_string"
    /\ \E ok \in BOOLEAN :
         /\ calls' = Append(calls, Call("to_string", "", ok, None, None))
         /\ IF ok THEN /\ pc' = "Succeeded"
                       /\ stdout' = Append(stdout, ToJson(response))
                       /\ error' = error
                  ELSE /\ pc' = "Failed"
                       /\ stdout' = Append(stdout, ToJson(response))
                       /\ error' = "serde_json"
    /\ UNCHANGED <<lock, fw, input_file, network_options, firewall_driver, iter,
                   network, per_network_opts, id_network_hash, response,
                   devices, rules>>

\* lines 114-118: serialize the response and print it
ExecEmit ==
    /\ pc = "to_string"
    /\ \E ok \in BOOLEAN :
         /\ calls' = Append(calls, Call("to_string", "", ok, None, None))
         /\ IF ok THEN /\ pc' = "Succeeded"
                       /\ stdout' = Append(stdout, ToJson(response))
                       /\ error' = error
                  ELSE /\ pc' = "Failed"
                       /\ stdout' = stdout
                       /\ error' = "serde_json"
    /\ UNCHANGED <<lock, fw, input_file, network_options, firewall_driver, iter,
                   network, per_network_opts, id_network_hash, response,
                   devices, rules>>

Next ==
    \/ ExecNsChecks
    \/ ExecLoad
    \/ ExecGetFirewallDriver
    \/ ExecApplySysctl
    \/ ExecForNext
    \/ ExecMatchDriver
    \/ ExecGetPerNetworkOpts
    \/ ExecBridgePerPodmanNetwork
    \/ ExecSetupNetwork
    \/ ExecPortBindings
    \/ ExecEmit

Spec == Init /\ [][Next]_vars

\* every call of exec returns, so exec always takes its next step
FairSpec == Spec /\ WF_vars(Next)

\* ------------------------------------------- concurrent invocations, host
\* The firewall calls exec makes for a request when every call succeeds:
\* per network, in iteration order, setup_network and then, with port
\* mappings, setup_port_forward; the loop ends at the first network that is
\* not a bridge network or has no options.
RECURSIVE FirewallCallsFrom(_, _)
FirewallCallsFrom(opts, entries) ==
    IF entries = <<>> THEN <<>>
    ELSE LET e == Head(entries)
             hash == create_network_hash(e.name, MAX_HASH_SIZE)
         IN IF e.driver # "bridge" \/ e.name \notin DOMAIN opts.networks
            THEN <<>>
            ELSE <<[op |-> "setup_network", net |-> e.name, token |-> hash]>>
                 \o (IF IsSome(opts.port_mappings)
                     THEN <<[op |-> "setup_port_forward", net |-> e.name,
                             token |-> hash]>>
                     ELSE <<>>)
                 \o FirewallCallsFrom(opts, Tail(entries))

FirewallCalls(opts) == FirewallCallsFrom(opts, IterOf(opts.network_info))

FirewallQueues == {FirewallCalls(o) : o \in NetworkOptionsValues}

RuleKind(op) == IF op = "setup_network" THEN "network" ELSE "port_forward"

execVars == <<pc, input_file, network_options, firewall_driver, iter, network,
              per_network_opts, id_network_hash, response, calls, devices,
              stdout, error>>

\* two invocations on one host, each about to make its firewall calls
ConcInit ==
    /\ pc = "ns_checks"
    /\ input_file = [container_id |-> "ctr", networks |-> <<>>,
                     network_info |-> <<>>, port_mappings |-> None]
    /\ network_options = None
    /\ firewall_driver = None
    /\ iter = <<>>
    /\ network = None
    /\ per_network_opts = None
    /\ id_network_hash = None
    /\ response = <<>>
    /\ calls = <<>>
    /\ devices = {}
    /\ rules = {}
    /\ stdout = <<>>
    /\ error = ""
    /\ lock = 0
    /\ fw \in [Procs -> [pc : {"idle"}, queue : FirewallQueues, snapshot : {{}}]]

\* variant of FwAcquire: the lock is taken without waiting for it
FwAcquire_NoWait(p) ==
    /\ fw[p].pc = "idle"
    /\ fw[p].queue # <<>>
    /\ lock' = p
    /\ fw' = [fw EXCEPT ![p].pc = "locked"]
    /\ UNCHANGED <<execVars, rules>>

\* a firewall call starts: the engine takes the host-wide lock
FwAcquire(p) ==
    /\ fw[p].pc = "idle"
    /\ fw[p].queue # <<>>
    /\ lock = 0
    /\ lock' = p
    /\ fw' = [fw EXCEPT ![p].pc = "locked"]
    /\ UNCHANGED <<execVars, rules>>

\* the engine reads the rule table of the host
FwRead(p) ==
    /\ fw[p].pc = "locked"
    /\ fw' = [fw EXCEPT ![p].pc = "read", ![p].snapshot = rules]
    /\ UNCHANGED <<execVars, rules, lock>>

\* the engine writes the table it read, changed by the rules of the call;
\* an error ends the invocation
FwWrite(p) ==
    /\ fw[p].pc = "read"
    /\ LET c == Head(fw[p].queue)
       IN \E ok \in BOOLEAN, partial \in BOOLEAN :
            /\ rules' = RuleEffect(fw[p].snapshot, RuleKind(c.op), c.net,
                                   c.token, ok, partial)
            /\ fw' = [fw EXCEPT ![p].pc = "written",
                                ![p].queue = IF ok THEN Tail(@) ELSE <<>>,
                                ![p].snapshot = {}]
    /\ UNCHANGED <<execVars, lock>>

\* the call returns: the engine releases the lock
FwRelease(p) ==
    /\ fw[p].pc = "written"
    /\ lock' = 0
    /\ fw' = [fw EXCEPT ![p].pc = "idle"]
    /\ UNCHANGED <<execVars, rules>>

ConcNext ==
    \E p \in Procs :
        \/ FwAcquire(p)
        \/ FwRead(p)
        \/ FwWrite(p)
        \/ FwRelease(p)

ConcSpec == ConcInit /\ [][ConcNext]_vars

\* ------------------------------------------------- vocabulary of the claims
ProvisionerOps == {"bridge_per_podman_network"}
FirewallOps == {"setup_network", "setup_port_forward"}
WorkOps == ProvisionerOps \cup FirewallOps
PerNetworkOps == WorkOps \cup {"match_driver", "networks.get"}

CallsOf(ops) == {i \in 1..Len(calls) : calls[i].op \in ops}
WorkFor(n) == {i \in CallsOf(WorkOps) : calls[i].net = n}
Failure(i) == ~calls[i].ok

\* position of a network in the input
PosOf(n) == CHOOSE i \in 1..Len(input_file.network_info) :
                input_file.network_info[i].name = n

Current == Unwrap(network)

\* C1: the status mapping is written to standard output exactly once when
\* exec succeeds and never when it fails or is still running; what is
\* written is the mapping of all the networks, never a part of it.
C1_StatusEmittedOnlyOnSuccess ==
    /\ pc = "Succeeded" => Len(stdout) = 1
    /\ pc # "Succeeded" => stdout = <<>>
    /\ \A i \in 1..Len(stdout) :
         /\ stdout[i] = ToJson(response)
         /\ {m.key : m \in stdout[i].members} = InfoNames(input_file)

C1_Witness ==
    /\ pc = "Succeeded"
    /\ Len(stdout) = 1
    /\ Cardinality(stdout[1].members) >= 2

\* C2: the first failing step is the last step of the invocation: nothing
\* is called after it for any network, and the invocation is Failed.
C2_FirstErrorAborts ==
    \A i \in 1..Len(calls) :
        Failure(i) => /\ i = Len(calls)
                      /\ pc = "Failed"
                      /\ error # ""

C2_Witness ==
    /\ pc = "Failed"
    /\ calls[Len(calls)].op = "bridge_per_podman_network"
    /\ Failure(Len(calls))
    /\ iter # <<>>

\* C3: every setup_port_forward call for a network comes after a successful
\* setup_network call for the same network.
C3_NetworkRulesBeforePortForward ==
    \A i \in CallsOf({"setup_port_forward"}) :
        \E j \in CallsOf({"setup_network"}) :
            /\ j < i
            /\ calls[j].net = calls[i].net
            /\ calls[j].ok

C3_Witness ==
    /\ Cardinality(CallsOf({"setup_port_forward"})) >= 2
    /\ \E i \in CallsOf({"setup_port_forward"}) : Failure(i)

\* C4: when a request is rejected for a driver other than "bridge", no
\* device has been created and no firewall rule installed by the invocation.
C4_NoSideEffectsOnUnknownDriver ==
    (pc = "Failed" /\ error = "unknown network driver")
        => devices = {} /\ rules = {}

\* C5: an invocation whose per-network options name a network that has no
\* definition never succeeds.
C5_UnknownOptionNamesRejected ==
    pc = "Succeeded" =>
        DOMAIN input_file.networks \subseteq InfoNames(input_file)

\* C6 (as stated): a network reached without per-network options fails the
\* invocation with the missing-options error, without any provisioner or
\* firewall call for it.
C6_MissingOptionsAlwaysReported ==
    (/\ pc = "Failed"
     /\ IsSome(network)
     /\ Current.name \notin DOMAIN input_file.networks)
        => /\ error = "network options not found"
           /\ WorkFor(Current.name) = {}

\* C6 (amended): a network reached without per-network options fails the
\* invocation at that network without any provisioner or firewall call for
\* it; the error is the missing-options error when its driver is "bridge".
C6_MissingOptionsBridge ==
    (/\ IsSome(network)
     /\ Current.name \notin DOMAIN input_file.networks)
        => /\ WorkFor(Current.name) = {}
           /\ pc \in {"match_driver", "get_per_network_opts", "Failed"}
           /\ (pc = "Failed" /\ Current.driver = "bridge")
                 => error = "network options not found"

C6_Witness ==
    /\ pc = "Failed"
    /\ error = "network options not found"
    /\ Current.name \notin DOMAIN input_file.networks
    /\ devices # {}

C8_NoRollback ==
    pc = "Failed" =>
        /\ stdout = <<>>
        /\ \A i \in CallsOf({"bridge_per_podman_network"}) :
             calls[i].ok => [net |-> calls[i].net, complete |-> TRUE] \in devices
        /\ \A i \in CallsOf(FirewallOps) :
             calls[i].ok => \E r \in rules : r.net = calls[i].net /\ r.complete
                                /\ r.token = Unwrap(calls[i].token)
        /\ \A n \in DOMAIN response : \E d \in devices : d.net = n /\ d.complete

C8_Witness ==
    /\ pc = "Failed"
    /\ DOMAIN response # {}
    /\ \E d \in devices : d.complete
    /\ \E d \in devices : ~d.complete
    /\ \E r \in rules : r.complete

\* C9: when ns_checks fails, it is the only step of the invocation:
\* nothing is loaded, detected, written or created.
C9_NamespaceCheckedFirst ==
    (\E i \in CallsOf({"ns_checks"}) : Failure(i))
        => /\ Len(calls) = 1
           /\ pc = "Failed"
           /\ network_options = None
           /\ firewall_driver = None
           /\ devices = {} /\ rules = {}

C9_Witness ==
    /\ pc = "Failed"
    /\ error = "invalid namespace path"
    /\ Len(input_file.network_info) >= 1

\* C10: the IPv4-forwarding sysctl is applied once, after backend detection
\* and before any per-network step, and no per-network step is taken unless
\* it succeeded.
C10_SysctlOnceBeforeNetworks ==
    LET applied == {i \in CallsOf({"apply_sysctl_value"}) :
                        calls[i].net = IPV4_FORWARD}
    IN /\ Cardinality(CallsOf({"apply_sysctl_value"})) <= 1
       /\ (IsSome(firewall_driver) /\ pc # "apply_sysctl")
             => Cardinality(applied) = 1
       /\ \A j \in CallsOf(PerNetworkOps) :
             \E i \in applied : i < j /\ calls[i].ok
       /\ (\E i \in applied : Failure(i)) => pc = "Failed" /\ devices = {}

C10_Witness ==
    /\ Cardinality(CallsOf({"apply_sysctl_value"})) = 1
    /\ Cardinality(CallsOf(WorkOps)) >= 2

Terminal == {"Succeeded", "Failed"}
CollaboratorOps == {"ns_checks", "load", "get_supported_firewall_driver",
                    "apply_sysctl_value", "to_string"} \cup WorkOps
Unsupported == {e \in {input_file.network_info[i] :
                         i \in 1..Len(input_file.network_info)} :
                    e.driver # "bridge"}

\* C11: firewall backend detection is attempted at most once; when it
\* fails the invocation is Failed at once: no sysctl, no device, no rule,
\* no status.
C11_NoBackendIsFatal ==
    /\ Cardinality(CallsOf({"get_supported_firewall_driver"})) <= 1
    /\ (\E i \in CallsOf({"get_supported_firewall_driver"}) : Failure(i))
          => /\ pc = "Failed"
             /\ calls[Len(calls)].op = "get_supported_firewall_driver"
             /\ CallsOf({"apply_sysctl_value"}) = {}
             /\ devices = {} /\ rules = {}
             /\ stdout = <<>>

C11_Witness ==
    /\ pc = "Failed"
    /\ error = "panic"
    /\ IsSome(network_options)
    /\ Len(Unwrap(network_options).network_info) >= 1

\* C12 (as stated): a request with a network of an unsupported driver, in
\* which no collaborator call fails, ends with the unknown-driver error.
C12_AlwaysUnknownDriverError ==
    (/\ pc = "Failed"
     /\ Unsupported # {}
     /\ \A i \in CallsOf(CollaboratorOps) : calls[i].ok)
        => error = "unknown network driver"

\* C12 (amended): a request with a network of an unsupported driver never
\* succeeds and prints nothing; no provisioner or firewall call is made for
\* that network; when exec fails at that network the error is the
\* unknown-driver error.
C12_UnsupportedDriverRejected ==
    Unsupported # {} =>
        /\ pc # "Succeeded"
        /\ pc # "to_string"
        /\ stdout = <<>>
        /\ \A e \in Unsupported : WorkFor(e.name) = {}
        /\ (pc = "Failed" /\ IsSome(network) /\ Current \in Unsupported)
              => error = "unknown network driver"

C12_Witness ==
    /\ pc = "Failed"
    /\ error = "unknown network driver"
    /\ Current.driver = "macvlan"
    /\ devices # {}

OkCalls(op) == {i \in CallsOf({op}) : calls[i].ok}
CallsFor(op, n) == {i \in CallsOf({op}) : calls[i].net = n}
Entries == {input_file.network_info[i] : i \in 1..Len(input_file.network_info)}

\* C14: the token handed to the firewall engine is the hash of the network
\* name cut to MAX_HASH_SIZE, whatever else the request holds, and
\* setup_network and setup_port_forward of a network get the same token.
C14_TokenFromNameOnly ==
    /\ \A i \in CallsOf(FirewallOps) :
          calls[i].token = Some(create_network_hash(calls[i].net, MAX_HASH_SIZE))
    /\ \A i, j \in CallsOf(FirewallOps) :
          calls[i].net = calls[j].net => calls[i].token = calls[j].token
    /\ \A r \in rules : r.token = create_network_hash(r.net, MAX_HASH_SIZE)

C14_Witness ==
    \E i \in CallsOf({"setup_network"}), j \in CallsOf({"setup_port_forward"}),
       k \in CallsOf({"setup_port_forward"}) :
        /\ calls[i].net = calls[j].net
        /\ calls[i].token = calls[j].token
        /\ calls[k].net # calls[j].net
        /\ calls[k].token # calls[j].token

\* C15: once loaded, the NetworkOptions value is never changed by a step
\* of exec.
C15_OptionsNeverMutated ==
    [][IsSome(network_options) => network_options' = network_options]_vars

C15_Witness ==
    /\ pc \in Terminal
    /\ network_options = Some(input_file)
    /\ \E i \in CallsOf({"setup_port_forward"}) :
          calls[i].ports = Some(<<PortMapping>>)

\* C16: the keys of the response map are the networks whose provisioning
\* returned success so far, each with its own status block; the mapping
\* printed on success has the keys of the definitions.
C16_ResponsePerProvisionedNetwork ==
    /\ DOMAIN response = {calls[i].net : i \in OkCalls("bridge_per_podman_network")}
    /\ \A n \in DOMAIN response :
          response[n] = StatusBlockOf(n, input_file.networks[n])
    /\ pc = "Succeeded" =>
          /\ {m.key : m \in stdout[1].members} = InfoNames(input_file)
          /\ Cardinality(stdout[1].members) = Len(input_file.network_info)

C16_Witness ==
    /\ pc = "setup_network"
    /\ Cardinality(DOMAIN response) = 2
    /\ Cardinality(OkCalls("setup_network")) = 1

\* C17: per network the steps are provisioning, then network rules, then
\* port-forward rules, each at most once and each after the success of the
\* one before; the steps of two networks do not interleave.
C17_StepsInOrderPerNetwork ==
    /\ \A n \in Names, op \in WorkOps : Cardinality(CallsFor(op, n)) <= 1
    /\ \A i \in CallsOf({"setup_network"}) :
          \E j \in OkCalls("bridge_per_podman_network") :
              j < i /\ calls[j].net = calls[i].net
    /\ \A i \in CallsOf({"setup_port_forward"}) :
          \E j \in OkCalls("setup_network") :
              j < i /\ calls[j].net = calls[i].net
    /\ \A i, j, k \in CallsOf(WorkOps) :
          (i < k /\ k < j /\ calls[i].net = calls[j].net)
              => calls[k].net = calls[i].net

C17_Witness ==
    /\ Cardinality(CallsOf(WorkOps)) = 6
    /\ Cardinality({calls[i].net : i \in CallsOf(WorkOps)}) = 2

\* C18: exec ends, as Succeeded or Failed; no step is taken twice, the
\* loop runs at most once per definition, and exec only succeeds when
\* every defined network passed all of its steps.
C18_TerminatesOnce ==
    /\ <>(pc \in Terminal)
    /\ [](/\ Cardinality(CallsOf({"match_driver"})) <= Len(input_file.network_info)
          /\ \A i, j \in 1..Len(calls) :
                (calls[i].op = calls[j].op /\ calls[i].net = calls[j].net)
                    => i = j
          /\ pc = "Succeeded" =>
                /\ \A i \in 1..Len(calls) : calls[i].ok
                /\ \A e \in Entries :
                      /\ CallsFor("bridge_per_podman_network", e.name) # {}
                      /\ CallsFor("setup_network", e.name) # {}
                      /\ IsSome(input_file.port_mappings)
                            => CallsFor("setup_port_forward", e.name) # {})

C18_Witness ==
    /\ pc = "Succeeded"
    /\ Cardinality(CallsOf({"match_driver"})) = 2
    /\ Cardinality(CallsOf({"setup_port_forward"})) = 2

\* C19: without port mappings setup_port_forward is never called; with
\* port mappings, also an empty list, it is called once for each network
\* that passed setup_network, with the whole list of the request.
C19_PortForwardIffMappings ==
    /\ ~IsSome(input_file.port_mappings) => CallsOf({"setup_port_forward"}) = {}
    /\ \A i \in CallsOf({"setup_port_forward"}) :
          /\ calls[i].ports = Some(Unwrap(input_file.port_mappings))
          /\ Cardinality(CallsFor("setup_port_forward", calls[i].net)) = 1
    /\ IsSome(input_file.port_mappings) =>
          \A i \in OkCalls("setup_network") :
              \/ pc = "port_bindings" /\ Current.name = calls[i].net
              \/ Cardinality(CallsFor("setup_port_forward", calls[i].net)) = 1

C19_Witness ==
    /\ pc = "Succeeded"
    /\ input_file.port_mappings = Some(<<>>)
    /\ \E i \in CallsOf({"setup_port_forward"}) : calls[i].ports = Some(<<>>)

InSequence(p) == fw[p].pc \in {"locked", "read", "written"}

\* C13: the rule-table sequences of two invocations do not interleave: at
\* most one invocation is inside a sequence, it holds the lock, and the
\* table it is about to write is the table it read.
C13_RuleTableSerialized ==
    /\ \A p, q \in Procs : (InSequence(p) /\ InSequence(q)) => p = q
    /\ \A p \in Procs : InSequence(p) <=> lock = p
    /\ \A p \in Procs : fw[p].pc = "read" => fw[p].snapshot = rules

C13_Witness ==
    \E p, q \in Procs :
        /\ p # q
        /\ fw[p].pc = "read"
        /\ fw[p].snapshot # {}
        /\ fw[q].pc = "idle"
        /\ fw[q].queue # <<>>
        /\ \E r \in rules : \A c \in {fw[p].queue[i] : i \in 1..Len(fw[p].queue)} :
              r.net # c.net

====
